---- MODULE Spec2Model ----
(***************************************************************************)
(* Knight-move path enumeration on the 4 x 5 keypad grid.                  *)
(*                                                                         *)
(* Python values are modelled as tagged records so that the shape of a     *)
(* value (tuple, list, int, None) is part of the value:                    *)
(*   (a, b, ...)  is  [t |-> "tuple", v |-> <<a, b, ...>>]  (numeric items) *)
(*   [e1, e2, ..] is  [t |-> "list",  v |-> <<e1, e2, ...>>]               *)
(*   n            is  [t |-> "int",   v |-> n]                             *)
(*   None         is  [t |-> "none",  v |-> <<>>]                          *)
(***************************************************************************)
EXTENDS Integers, Sequences, FiniteSets, TLC

VARIABLES
    x, y, n_steps,      \* get_all_sequences arguments: start cell, step count
    location_list,      \* argument: list of limited cells, or None
    max_hit,            \* argument: cap, or None
    filter,             \* argument: "none" (no filter) or "run" (run.py's lambda)
    miss_pos,           \* the forbidden cells closed over by run.py's lambda
    sequences,          \* local variable of get_all_sequences
    i,                  \* number of completed iterations of the for loop
    add_step_calls,     \* number of calls of add_step made so far
    pc,                 \* position in get_all_sequences
    result,             \* the returned value once pc = "returned"
    error,              \* the exception raised once pc = "raised"
    fn, arg, ret,       \* a direct call of a helper: its name, argument, outcome
    total_sequences     \* the counter of run.py's main

vars == <<x, y, n_steps, location_list, max_hit, filter, miss_pos, sequences,
          i, add_step_calls, pc, result, error, fn, arg, ret, total_sequences>>

enumVars == <<x, y, n_steps, location_list, max_hit, filter, miss_pos,
              sequences, i, add_step_calls, pc, result, error>>

fnVars == <<fn, arg, ret>>

mainVars == <<total_sequences>>

(***************************************************************************)
(* Bounds of the model.                                                    *)
(***************************************************************************)
MaxSteps == 2      \* n_steps ranges over 0..MaxSteps
Margin == 1        \* start cells range Margin cells beyond the grid bounds
MaxHits == 2       \* max_hit ranges over -1..MaxHits
MaxLen == 2        \* direct add_step calls: paths of up to MaxLen coordinates
MaxGen == 2        \* direct add_step calls: generations of up to MaxGen paths
MainSteps == 4     \* the number of moves main asks for (step_i, 9 in run.py)

(***************************************************************************)
(* Python values.                                                          *)
(***************************************************************************)
None == [t |-> "none", v |-> <<>>]
Tup(a, b) == [t |-> "tuple", v |-> <<a, b>>]
List(s) == [t |-> "list", v |-> s]
PyInt(n) == [t |-> "int", v |-> n]
PyBool(b) == [t |-> "bool", v |-> b]
\* the positional arguments of a call
Args(s) == [t |-> "args", v |-> s]

Ok(val) == [ok |-> TRUE, err |-> "", val |-> val]
Raise(e) == [ok |-> FALSE, err |-> e, val |-> None]

(***************************************************************************)
(* table_data.py and positions.py: the grid and what run.py derives from it *)
(***************************************************************************)
grid_rows ==
    << <<"A", "B", "C", "D", "E">>,
       <<"F", "G", "H", "I", "J">>,
       <<"K", "L", "M", "N", "O">>,
       <<"",  "1", "2", "3", "">> >>

RECURSIVE Flatten(_)
Flatten(ss) == IF ss = <<>> THEN <<>> ELSE Head(ss) \o Flatten(Tail(ss))

get_table_data ==
    Flatten([r \in 1..Len(grid_rows) |->
                [c \in 1..Len(grid_rows[r]) |-> <<r, c, grid_rows[r][c]>>]])

vowels == {"a", "e", "i", "o", "u", "A", "E", "I", "O", "U"}

\* a one-character value that is a vowel
IsVowelCell(e) == e[3] \in vowels
\* variant: the digits count as missing values too
IsMissingCell_DigitsMissing(e) ==
    e[3] \in {"", "none", "nan", "null", "na", "0", "1", "2", "3", "4",
              "5", "6", "7", "8", "9"}

\* an empty value or a text standing for a missing one (the grid holds no
\* whitespace-only or upper-case variants of these)
IsMissingCell(e) == e[3] \in {"", "none", "nan", "null", "na"}

CellOf(e) == Tup(e[1], e[2])
CellsOf(es) == [k \in 1..Len(es) |-> CellOf(es[k])]

get_vowel_positions(coordinate_data) ==
    List(CellsOf(SelectSeq(coordinate_data, IsVowelCell)))

get_missing_positions(coordinate_data) ==
    List(CellsOf(SelectSeq(coordinate_data, IsMissingCell)))

Min(S) == CHOOSE m \in S : \A n \in S : m <= n
Max(S) == CHOOSE m \in S : \A n \in S : m >= n

get_coordinate_bounds(coordinate_data) ==
    LET xs == {coordinate_data[k][1] : k \in 1..Len(coordinate_data)}
        ys == {coordinate_data[k][2] : k \in 1..Len(coordinate_data)}
    IN  [x_min |-> Min(xs), x_max |-> Max(xs), y_min |-> Min(ys), y_max |-> Max(ys)]

bounds_dict == get_coordinate_bounds(get_table_data)

(***************************************************************************)
(* knight_move.py                                                          *)
(***************************************************************************)
knight_moves ==
    << <<2, 1>>, <<2, -1>>, <<-2, 1>>, <<-2, -1>>,
       <<1, 2>>, <<1, -2>>, <<-1, 2>>, <<-1, -2>> >>

\* variant: the last offset typed (-1, 2) instead of (-1, -2)
all_knight_moves_LastOffsetRepeated(x_i, y_i) ==
    List([k \in 1..Len(knight_moves) |->
             IF k = Len(knight_moves)
             THEN Tup(x_i - 1, y_i + 2)
             ELSE Tup(x_i + knight_moves[k][1], y_i + knight_moves[k][2])])

all_knight_moves(x_i, y_i) ==
    List([k \in 1..Len(knight_moves) |->
             Tup(x_i + knight_moves[k][1], y_i + knight_moves[k][2])])

(***************************************************************************)
(* sequence_check.py                                                       *)
(***************************************************************************)
\* variant: the row compared with the column maximum
check_inside_bounds_RowAgainstColMax(sequence, x_min, x_max, y_min, y_max) ==
    \A k \in 1..Len(sequence.v) :
        ~ (\/ sequence.v[k].v[1] < x_min
           \/ sequence.v[k].v[1] > y_max
           \/ sequence.v[k].v[2] < y_min
           \/ sequence.v[k].v[2] > y_max)

\* variant: the maxima are excluded
check_inside_bounds_ExclusiveMax(sequence, x_min, x_max, y_min, y_max) ==
    \A k \in 1..Len(sequence.v) :
        ~ (\/ sequence.v[k].v[1] < x_min
           \/ sequence.v[k].v[1] >= x_max
           \/ sequence.v[k].v[2] < y_min
           \/ sequence.v[k].v[2] >= y_max)

check_inside_bounds(sequence, x_min, x_max, y_min, y_max) ==
    \A k \in 1..Len(sequence.v) :
        ~ (\/ sequence.v[k].v[1] < x_min
           \/ sequence.v[k].v[1] > x_max
           \/ sequence.v[k].v[2] < y_min
           \/ sequence.v[k].v[2] > y_max)

\* Python's `e in lst`
In(e, lst) == \E k \in 1..Len(lst.v) : lst.v[k] = e

\* variant: the first coordinate of the sequence is skipped
check_in_avoided_coordinate_SkipFirst(sequence, list_of_coordinates) ==
    \E k \in 2..Len(sequence.v) : In(sequence.v[k], list_of_coordinates)

\* variant: all() in place of any()
check_in_avoided_coordinate_All(sequence, list_of_coordinates) ==
    \A k \in 1..Len(sequence.v) : In(sequence.v[k], list_of_coordinates)

check_in_avoided_coordinate(sequence, list_of_coordinates) ==
    \E k \in 1..Len(sequence.v) : In(sequence.v[k], list_of_coordinates)

RECURSIVE SumOnes(_, _)
SumOnes(s, lst) ==
    IF s = <<>> THEN 0
    ELSE (IF In(Head(s), lst) THEN 1 ELSE 0) + SumOnes(Tail(s), lst)

\* variant: the start of the sequence is not counted
count_sequence_hit_location_list_SkipStart(sequence, loc_list) ==
    IF sequence.v = <<>> THEN 0 ELSE SumOnes(Tail(sequence.v), loc_list)

\* variant: a cell visited several times is counted once
count_sequence_hit_location_list_Distinct(sequence, loc_list) ==
    Cardinality({c \in {sequence.v[k] : k \in 1..Len(sequence.v)} : In(c, loc_list)})

count_sequence_hit_location_list(sequence, loc_list) ==
    SumOnes(sequence.v, loc_list)

(***************************************************************************)
(* sequence_create.py: shape tests, normalisation, one extension step      *)
(* (path_create.py, modelled further down, holds functions of the same     *)
(* names and get_all_paths for get_all_sequences)                          *)
(***************************************************************************)
\* variant: len(element) >= 2 in place of len(element) == 2
is_coordinate_tuple_AtLeastTwo(element) ==
    /\ element.t = "tuple"
    /\ Len(element.v) >= 2
    /\ \A k \in 1..Len(element.v) : element.v[k] \in Int

is_coordinate_tuple(element) ==
    /\ element.t = "tuple"
    /\ Len(element.v) = 2
    /\ \A k \in 1..Len(element.v) : element.v[k] \in Int

is_list_of_coordinate_tuples(element) ==
    /\ element.t = "list"
    /\ \A k \in 1..Len(element.v) : is_coordinate_tuple(element.v[k])

is_list_of_lists_of_coordinate_tuples(element) ==
    /\ element.t = "list"
    /\ \A k \in 1..Len(element.v) : is_list_of_coordinate_tuples(element.v[k])

\* variant: the case of a bare coordinate tuple is missing
check_and_convert_NoBareTuple(element) ==
    IF is_list_of_coordinate_tuples(element) THEN Ok(List(<<element>>))
    ELSE IF is_list_of_lists_of_coordinate_tuples(element) THEN Ok(element)
    ELSE Raise("ValueError")

check_and_convert(element) ==
    IF is_coordinate_tuple(element) THEN Ok(List(<<List(<<element>>)>>))
    ELSE IF is_list_of_coordinate_tuples(element) THEN Ok(List(<<element>>))
    ELSE IF is_list_of_lists_of_coordinate_tuples(element) THEN Ok(element)
    ELSE Raise("ValueError")

\* variant: the moves are taken from t[0] instead of t[-1]
Children_FromFirst(t) ==
    LET first == t.v[1]
        moves == all_knight_moves(first.v[1], first.v[2])
    IN  [k \in 1..Len(moves.v) |-> List(t.v \o <<moves.v[k]>>)]

\* the inner loop of add_step: the children of one path t, in move order
Children(t) ==
    LET last == t.v[Len(t.v)]
        moves == all_knight_moves(last.v[1], last.v[2])
    IN  [k \in 1..Len(moves.v) |-> List(t.v \o <<moves.v[k]>>)]

\* variant: the children of a later path are put before those of an earlier one
RECURSIVE ExtendAll_LaterPathFirst(_)
ExtendAll_LaterPathFirst(paths) ==
    IF paths = <<>> THEN <<>>
    ELSE ExtendAll_LaterPathFirst(Tail(paths)) \o Children(Head(paths))

\* the outer loop of add_step over the normalised input
RECURSIVE ExtendAll(_)
ExtendAll(paths) ==
    IF paths = <<>> THEN <<>>
    ELSE Children(Head(paths)) \o ExtendAll(Tail(paths))

add_step(l_in) ==
    LET conv == check_and_convert(l_in)
    IN  IF ~ conv.ok THEN conv
        ELSE IF \E k \in 1..Len(conv.val.v) : Len(conv.val.v[k].v) = 0
             THEN Raise("IndexError")       \* t[-1] of an empty list
        ELSE Ok(List(ExtendAll(conv.val.v)))

(***************************************************************************)
(* run.py: the filter lambda                                               *)
(***************************************************************************)
\* variant: the forbidden cells are not looked at
run_filter_BoundsOnly(sequence) ==
    check_inside_bounds(sequence, bounds_dict.x_min, bounds_dict.x_max,
                        bounds_dict.y_min, bounds_dict.y_max)

run_filter(sequence) ==
    /\ check_inside_bounds(sequence, bounds_dict.x_min, bounds_dict.x_max,
                           bounds_dict.y_min, bounds_dict.y_max)
    /\ ~ check_in_avoided_coordinate(sequence, miss_pos)

\* filter_cond of get_all_sequences: the default accepts every sequence
filter_cond(sequence) ==
    IF filter = "none" THEN TRUE ELSE run_filter(sequence)

(***************************************************************************)
(* get_all_sequences, step by step                                         *)
(***************************************************************************)
check_sequence_hit_count_cond ==
    (location_list # None) /\ (max_hit # None)

\* variant: the second assert written max_hit >= 0
AssertsHold_ZeroAccepted ==
    check_sequence_hit_count_cond =>
        /\ is_list_of_coordinate_tuples(location_list)
        /\ max_hit.t = "int" /\ max_hit.v >= 0

\* the two assert statements
AssertsHold ==
    check_sequence_hit_count_cond =>
        /\ is_list_of_coordinate_tuples(location_list)
        /\ max_hit.t = "int" /\ max_hit.v > 0

\* variant: the hit count is not compared with the cap
Keep_CapIgnored(seq) == filter_cond(seq)

Keep(seq) ==
    IF check_sequence_hit_count_cond
    THEN filter_cond(seq)
         /\ count_sequence_hit_location_list(seq, location_list) <= max_hit.v
    ELSE filter_cond(seq)

\* the for loop of get_all_sequences run k times from the value seqs
RECURSIVE LoopFrom(_, _)
LoopFrom(seqs, k) ==
    IF k = 0 THEN Ok(seqs)
    ELSE LET r == add_step(seqs)
         IN  IF ~ r.ok THEN r
             ELSE LoopFrom(List(SelectSeq(r.val.v, Keep)), k - 1)

\* a whole call get_all_sequences(x0, y0, k, location_list, max_hit, filter)
get_all_sequences(x0, y0, k) ==
    IF ~ AssertsHold THEN Raise("AssertionError")
    ELSE IF filter_cond(List(<<Tup(x0, y0)>>))
         THEN LoopFrom(List(<<Tup(x0, y0)>>), k)
         ELSE Ok(List(<<>>))

\* The same call with the targets and the cap as parameters, for calls that
\* differ from the current one in these two arguments only.
Keep_with(seq, loc_list, cap) ==
    IF (loc_list # None) /\ (cap # None)
    THEN filter_cond(seq)
         /\ count_sequence_hit_location_list(seq, loc_list) <= cap.v
    ELSE filter_cond(seq)

RECURSIVE LoopFrom_with(_, _, _, _)
LoopFrom_with(seqs, k, loc_list, cap) ==
    IF k = 0 THEN Ok(seqs)
    ELSE LET r == add_step(seqs)
             kept(seq) == Keep_with(seq, loc_list, cap)
         IN  IF ~ r.ok THEN r
             ELSE LoopFrom_with(List(SelectSeq(r.val.v, kept)), k - 1, loc_list, cap)

get_all_sequences_with(x0, y0, k, loc_list, cap) ==
    IF (loc_list # None) /\ (cap # None)
       /\ ~ (/\ is_list_of_coordinate_tuples(loc_list)
             /\ cap.t = "int" /\ cap.v > 0)
    THEN Raise("AssertionError")
    ELSE IF filter_cond(List(<<Tup(x0, y0)>>))
         THEN LoopFrom_with(List(<<Tup(x0, y0)>>), k, loc_list, cap)
         ELSE Ok(List(<<>>))

(***************************************************************************)
(* path_check.py and path_create.py: the modules named after paths.  The   *)
(* functions whose names sequence_check.py and sequence_create.py also use *)
(* carry the name of their module in front.                                *)
(***************************************************************************)
path_check_check_inside_bounds(path, x_min, x_max, y_min, y_max) ==
    \A k \in 1..Len(path.v) :
        ~ (\/ path.v[k].v[1] < x_min
           \/ path.v[k].v[1] > x_max
           \/ path.v[k].v[2] < y_min
           \/ path.v[k].v[2] > y_max)

path_check_check_in_avoided_coordinate(path, list_of_coordinates) ==
    \E k \in 1..Len(path.v) : In(path.v[k], list_of_coordinates)

count_path_hit_location_list(path, loc_list) ==
    SumOnes(path.v, loc_list)

path_create_is_coordinate_tuple(element) ==
    /\ element.t = "tuple"
    /\ Len(element.v) = 2
    /\ \A k \in 1..Len(element.v) : element.v[k] \in Int

path_create_is_list_of_coordinate_tuples(element) ==
    /\ element.t = "list"
    /\ \A k \in 1..Len(element.v) : path_create_is_coordinate_tuple(element.v[k])

path_create_is_list_of_lists_of_coordinate_tuples(element) ==
    /\ element.t = "list"
    /\ \A k \in 1..Len(element.v) :
           path_create_is_list_of_coordinate_tuples(element.v[k])

path_create_check_and_convert(element) ==
    IF path_create_is_coordinate_tuple(element)
    THEN Ok(List(<<List(<<element>>)>>))
    ELSE IF path_create_is_list_of_coordinate_tuples(element)
    THEN Ok(List(<<element>>))
    ELSE IF path_create_is_list_of_lists_of_coordinate_tuples(element)
    THEN Ok(element)
    ELSE Raise("ValueError")

\* the two loops of path_create.add_step over the normalised input
RECURSIVE path_create_ExtendAll(_)
path_create_ExtendAll(paths) ==
    IF paths = <<>> THEN <<>>
    ELSE LET t == Head(paths)
             last == t.v[Len(t.v)]
             moves == all_knight_moves(last.v[1], last.v[2])
         IN  [k \in 1..Len(moves.v) |-> List(t.v \o <<moves.v[k]>>)]
             \o path_create_ExtendAll(Tail(paths))

path_create_add_step(l_in) ==
    LET conv == path_create_check_and_convert(l_in)
    IN  IF ~ conv.ok THEN conv
        ELSE IF \E k \in 1..Len(conv.val.v) : Len(conv.val.v[k].v) = 0
             THEN Raise("IndexError")       \* t[-1] of an empty list
        ELSE Ok(List(path_create_ExtendAll(conv.val.v)))

check_path_hit_count_cond ==
    (location_list # None) /\ (max_hit # None)

\* the condition of the comprehension of get_all_paths
path_create_Keep(path) ==
    IF check_path_hit_count_cond
    THEN filter_cond(path)
         /\ count_path_hit_location_list(path, location_list) <= max_hit.v
    ELSE filter_cond(path)

\* the for loop of get_all_paths run k times from the value paths
RECURSIVE path_create_LoopFrom(_, _)
path_create_LoopFrom(paths, k) ==
    IF k = 0 THEN Ok(paths)
    ELSE LET r == path_create_add_step(paths)
         IN  IF ~ r.ok THEN r
             ELSE path_create_LoopFrom(List(SelectSeq(r.val.v, path_create_Keep)), k - 1)

\* a whole call get_all_paths(x0, y0, k, location_list, max_hit, filter)
get_all_paths(x0, y0, k) ==
    IF check_path_hit_count_cond
       /\ ~ (/\ path_create_is_list_of_coordinate_tuples(location_list)
             /\ max_hit.t = "int" /\ max_hit.v > 0)
    THEN Raise("AssertionError")
    ELSE IF filter_cond(List(<<Tup(x0, y0)>>))
         THEN path_create_LoopFrom(List(<<Tup(x0, y0)>>), k)
         ELSE Ok(List(<<>>))

\* entry: validation of the cap configuration, then sequences = [(x, y)]
Validate ==
    /\ pc = "call"
    /\ IF AssertsHold
       THEN /\ sequences' = List(<<Tup(x, y)>>)
            /\ pc' = "check_start"
            /\ error' = error
       ELSE /\ pc' = "raised"
            /\ error' = "AssertionError"
            /\ sequences' = sequences
    /\ UNCHANGED <<x, y, n_steps, location_list, max_hit, filter, miss_pos,
                   i, add_step_calls, result>>
    /\ UNCHANGED <<fnVars, mainVars>>

\* `if filter_cond(sequences): ... else: return []`
CheckStart ==
    /\ pc = "check_start"
    /\ IF filter_cond(sequences)
       THEN /\ pc' = "loop"
            /\ result' = result
       ELSE /\ pc' = "returned"
            /\ result' = List(<<>>)
    /\ UNCHANGED <<x, y, n_steps, location_list, max_hit, filter, miss_pos,
                   sequences, i, add_step_calls, error>>
    /\ UNCHANGED <<fnVars, mainVars>>

\* variant: the sequences are filtered on the last iteration only
Step_FilterOnLastIteration ==
    /\ pc = "loop"
    /\ i < n_steps
    /\ LET r == add_step(sequences)
       IN  IF r.ok
           THEN /\ sequences' = IF i + 1 = n_steps
                                 THEN List(SelectSeq(r.val.v, Keep))
                                 ELSE r.val
                /\ i' = i + 1
                /\ pc' = pc
                /\ error' = error
           ELSE /\ pc' = "raised"
                /\ error' = r.err
                /\ sequences' = sequences
                /\ i' = i
    /\ add_step_calls' = add_step_calls + 1
    /\ UNCHANGED <<x, y, n_steps, location_list, max_hit, filter, miss_pos, result>>
    /\ UNCHANGED <<fnVars, mainVars>>

\* variant: the comprehension hands the surviving sequences back last first
Step_SurvivorsReversed ==
    /\ pc = "loop"
    /\ i < n_steps
    /\ LET r == add_step(sequences)
           kept == SelectSeq(r.val.v, Keep)
       IN  IF r.ok
           THEN /\ sequences' = List([k \in 1..Len(kept) |-> kept[Len(kept) + 1 - k]])
                /\ i' = i + 1
                /\ pc' = pc
                /\ error' = error
           ELSE /\ pc' = "raised"
                /\ error' = r.err
                /\ sequences' = sequences
                /\ i' = i
    /\ add_step_calls' = add_step_calls + 1
    /\ UNCHANGED <<x, y, n_steps, location_list, max_hit, filter, miss_pos, result>>
    /\ UNCHANGED <<fnVars, mainVars>>

\* one iteration of `for _ in range(n_steps)`
Step ==
    /\ pc = "loop"
    /\ i < n_steps
    /\ LET r == add_step(sequences)
       IN  IF r.ok
           THEN /\ sequences' = List(SelectSeq(r.val.v, Keep))
                /\ i' = i + 1
                /\ pc' = pc
                /\ error' = error
           ELSE /\ pc' = "raised"
                /\ error' = r.err
                /\ sequences' = sequences
                /\ i' = i
    /\ add_step_calls' = add_step_calls + 1
    /\ UNCHANGED <<x, y, n_steps, location_list, max_hit, filter, miss_pos, result>>
    /\ UNCHANGED <<fnVars, mainVars>>

\* `return sequences` after the loop
Return ==
    /\ pc = "loop"
    /\ i = n_steps
    /\ result' = sequences
    /\ pc' = "returned"
    /\ UNCHANGED <<x, y, n_steps, location_list, max_hit, filter, miss_pos,
                   sequences, i, add_step_calls, error>>
    /\ UNCHANGED <<fnVars, mainVars>>

(***************************************************************************)
(* Inputs                                                                  *)
(***************************************************************************)
StartXs == (bounds_dict.x_min - Margin)..(bounds_dict.x_max + Margin)
StartYs == (bounds_dict.y_min - Margin)..(bounds_dict.y_max + Margin)

vo_pos == get_vowel_positions(get_table_data)
grid_miss_pos == get_missing_positions(get_table_data)

\* limited-cell lists: none, the grid's vowels, and the cells around the corner
LocationLists ==
    {None, vo_pos, List(<<Tup(1, 1), Tup(2, 3), Tup(3, 2)>>)}

MaxHitValues == {None} \cup {PyInt(n) : n \in (0 - 1)..MaxHits}

\* forbidden-cell lists: none, the grid's missing cells, both moves from (1,1)
MissPosLists ==
    {List(<<>>), grid_miss_pos, List(<<Tup(2, 3), Tup(3, 2)>>)}

\* outcome of a helper call that has not been made yet
Pending == [ok |-> FALSE, err |-> "pending", val |-> None]

IdleFn ==
    /\ fn = "idle"
    /\ arg = None
    /\ ret = Pending

IdleEnum ==
    /\ x = 0 /\ y = 0 /\ n_steps = 0
    /\ location_list = None
    /\ max_hit = None
    /\ filter = "none"
    /\ miss_pos = List(<<>>)
    /\ sequences = None
    /\ i = 0
    /\ add_step_calls = 0
    /\ pc = "idle"
    /\ result = None
    /\ error = ""

IdleMain == total_sequences = 0

Init ==
    /\ IdleMain
    /\ x \in StartXs
    /\ y \in StartYs
    /\ n_steps \in 0..MaxSteps
    /\ location_list \in LocationLists
    /\ max_hit \in MaxHitValues
    /\ filter \in {"none", "run"}
    /\ miss_pos \in (IF filter = "none" THEN {List(<<>>)} ELSE MissPosLists)
    /\ sequences = None
    /\ i = 0
    /\ add_step_calls = 0
    /\ pc = "call"
    /\ result = None
    /\ error = ""
    /\ IdleFn

Next ==
    \/ Validate
    \/ CheckStart
    \/ Step
    \/ Return

Spec == Init /\ [][Next]_vars

(***************************************************************************)
(* run.py: main, calling get_all_sequences from every cell of the bounds   *)
(***************************************************************************)
main_max_hit == 2

\* variant: the counter is overwritten instead of added to
Accumulated_Overwritten(total, all_sequence_list) == Len(all_sequence_list.v)

\* `total_sequences += len(all_sequence_list)`
Accumulated(total, all_sequence_list) == total + Len(all_sequence_list.v)

InitMain ==
    /\ x = bounds_dict.x_min
    /\ y = bounds_dict.y_min
    /\ n_steps = MainSteps
    /\ location_list = vo_pos
    /\ max_hit = PyInt(main_max_hit)
    /\ filter = "run"
    /\ miss_pos = grid_miss_pos
    /\ sequences = None
    /\ i = 0
    /\ add_step_calls = 0
    /\ pc = "call"
    /\ result = None
    /\ error = ""
    /\ total_sequences = 0
    /\ IdleFn

\* the body of the two for loops after the call has returned: the counter is
\* updated and the loops move on to the next cell, row by row, or end
MainAccumulate ==
    /\ pc = "returned"
    /\ total_sequences' = Accumulated(total_sequences, result)
    /\ IF y < bounds_dict.y_max
       THEN /\ y' = y + 1
            /\ x' = x
            /\ pc' = "call"
       ELSE IF x < bounds_dict.x_max
            THEN /\ x' = x + 1
                 /\ y' = bounds_dict.y_min
                 /\ pc' = "call"
            ELSE /\ x' = x
                 /\ y' = y
                 /\ pc' = "main_done"
    /\ sequences' = None
    /\ i' = 0
    /\ add_step_calls' = 0
    /\ result' = None
    /\ UNCHANGED <<n_steps, location_list, max_hit, filter, miss_pos, error>>
    /\ UNCHANGED fnVars

NextMain ==
    \/ Validate
    \/ CheckStart
    \/ Step
    \/ Return
    \/ MainAccumulate

SpecMain == InitMain /\ [][NextMain]_vars

(***************************************************************************)
(* Direct calls of the helpers all_knight_moves and add_step               *)
(***************************************************************************)
\* coordinates used to build the paths handed to add_step
FnCells == {Tup(1, 1), Tup(4, 5)}

RECURSIVE SeqsUpTo(_, _)
SeqsUpTo(S, n) ==
    IF n = 0 THEN {<<>>}
    ELSE LET shorter == SeqsUpTo(S, n - 1)
         IN  shorter \cup {Append(s, e) : s \in shorter, e \in S}

FnPaths == {List(s) : s \in SeqsUpTo(FnCells, MaxLen)}
FnGenerations == {List(s) : s \in SeqsUpTo(FnPaths, MaxGen)}

\* arguments that are none of the three accepted shapes
FnBadShapes ==
    { [t |-> "tuple", v |-> <<1, 1, 1>>],
      List(<<PyInt(1), PyInt(1)>>),
      List(<<Tup(1, 1), List(<<Tup(1, 1)>>)>>),
      List(<<List(<<List(<<Tup(1, 1)>>)>>)>>),
      [t |-> "tuple", v |-> <<1>>],
      PyInt(1) }

AddStepArgs == FnCells \cup FnPaths \cup FnGenerations \cup FnBadShapes

AllKnightMovesArgs == {Tup(a, b) : a \in StartXs, b \in StartYs}

\* cells of the paths handed to the checks of sequence_check.py
CheckCells == {Tup(1, 1), Tup(3, 2), Tup(2, 4)}
CheckPaths == {List(s) : s \in SeqsUpTo(CheckCells, MaxLen)}

\* the lists of the test at the end of sequence_check.py
specific_locations == List(<<Tup(1, 1), Tup(1, 5), Tup(2, 4), Tup(3, 5)>>)
test_sequence == List(<<Tup(1, 1), Tup(3, 2), Tup(1, 3), Tup(3, 4), Tup(1, 1)>>)

CountTargets ==
    {List(<<>>), List(<<Tup(1, 1)>>), List(<<Tup(1, 1), Tup(1, 1)>>),
     specific_locations}

CountArgs ==
    {Args(<<p, l>>) : p \in CheckPaths \cup {test_sequence}, l \in CountTargets}

AvoidedLists ==
    {List(<<>>), List(<<Tup(1, 1)>>), grid_miss_pos,
     List(<<Tup(3, 2), Tup(2, 4)>>)}

AvoidedArgs == {Args(<<p, l>>) : p \in CheckPaths, l \in AvoidedLists}

\* cells on the edges of the bounds and just outside them
BoundsCells ==
    {Tup(1, 1), Tup(4, 5), Tup(0, 1), Tup(5, 5), Tup(1, 6), Tup(1, 0)}
BoundsPaths == {List(s) : s \in SeqsUpTo(BoundsCells, MaxLen)}

\* run.py's idx_bounds and the bounds of the docstring examples
BoundsChoices ==
    {<<bounds_dict.x_min, bounds_dict.x_max, bounds_dict.y_min, bounds_dict.y_max>>,
     <<0, 5, 0, 5>>}

BoundsArgs ==
    {Args(<<p, PyInt(b[1]), PyInt(b[2]), PyInt(b[3]), PyInt(b[4])>>) :
        p \in BoundsPaths, b \in BoundsChoices}

CallCountHits ==
    /\ fn = "count_sequence_hit_location_list"
    /\ ret = Pending
    /\ ret' = Ok(PyInt(count_sequence_hit_location_list(arg.v[1], arg.v[2])))
    /\ UNCHANGED <<fn, arg>>
    /\ UNCHANGED <<enumVars, mainVars>>

CallCheckInsideBounds ==
    /\ fn = "check_inside_bounds"
    /\ ret = Pending
    /\ ret' = Ok(PyBool(check_inside_bounds(arg.v[1], arg.v[2].v, arg.v[3].v,
                                            arg.v[4].v, arg.v[5].v)))
    /\ UNCHANGED <<fn, arg>>
    /\ UNCHANGED <<enumVars, mainVars>>

CallCheckInAvoided ==
    /\ fn = "check_in_avoided_coordinate"
    /\ ret = Pending
    /\ ret' = Ok(PyBool(check_in_avoided_coordinate(arg.v[1], arg.v[2])))
    /\ UNCHANGED <<fn, arg>>
    /\ UNCHANGED <<enumVars, mainVars>>

CallAllKnightMoves ==
    /\ fn = "all_knight_moves"
    /\ ret = Pending
    /\ ret' = Ok(all_knight_moves(arg.v[1], arg.v[2]))
    /\ UNCHANGED <<fn, arg>>
    /\ UNCHANGED <<enumVars, mainVars>>

\* variant: `t += [(m, n)]` in place of `t + [(m, n)]`: the moves are appended
\* to the caller's paths (a bare tuple argument is wrapped in new lists first)
CallAddStep_AppendsInPlace ==
    /\ fn = "add_step"
    /\ ret = Pending
    /\ ret' = add_step(arg)
    /\ arg' = IF ~ add_step(arg).ok \/ arg.t # "list" THEN arg
              ELSE IF is_list_of_coordinate_tuples(arg)
                   THEN List(arg.v \o all_knight_moves(arg.v[Len(arg.v)].v[1],
                                                       arg.v[Len(arg.v)].v[2]).v)
                   ELSE List([k \in 1..Len(arg.v) |->
                                 List(arg.v[k].v \o
                                      all_knight_moves(arg.v[k].v[Len(arg.v[k].v)].v[1],
                                                       arg.v[k].v[Len(arg.v[k].v)].v[2]).v)])
    /\ UNCHANGED fn
    /\ UNCHANGED <<enumVars, mainVars>>

CallAddStep ==
    /\ fn = "add_step"
    /\ ret = Pending
    /\ ret' = add_step(arg)
    /\ UNCHANGED <<fn, arg>>
    /\ UNCHANGED <<enumVars, mainVars>>

InitFn ==
    /\ IdleEnum
    /\ IdleMain
    /\ fn \in {"all_knight_moves", "add_step", "count_sequence_hit_location_list",
               "check_inside_bounds", "check_in_avoided_coordinate"}
    /\ arg \in (CASE fn = "add_step" -> AddStepArgs
                 [] fn = "all_knight_moves" -> AllKnightMovesArgs
                 [] fn = "count_sequence_hit_location_list" -> CountArgs
                 [] fn = "check_inside_bounds" -> BoundsArgs
                 [] fn = "check_in_avoided_coordinate" -> AvoidedArgs)
    /\ ret = Pending

NextFn ==
    \/ CallAllKnightMoves
    \/ CallAddStep
    \/ CallCountHits
    \/ CallCheckInsideBounds
    \/ CallCheckInAvoided

SpecFn == InitFn /\ [][NextFn]_vars

(***************************************************************************)
(* Any one call of the package: the enumerator or one of its helpers       *)
(***************************************************************************)
InitAll == Init \/ InitFn

NextAll == Next \/ NextFn

SpecAll == InitAll /\ [][NextAll]_vars

(***************************************************************************)
(* Vocabulary of the properties, stated without the operators above        *)
(***************************************************************************)
Returned == pc = "returned"
Raised == pc = "raised"

StartPath == List(<<Tup(x, y)>>)

\* membership of a cell in a list of cells
Member(c, cells) == c \in {cells.v[k] : k \in 1..Len(cells.v)}

\* the number of positions of path p holding a cell of targets
HitCount(p, targets) ==
    Cardinality({k \in 1..Len(p.v) : Member(p.v[k], targets)})

CellInGrid(c) ==
    /\ c.v[1] \in 1..Len(grid_rows)
    /\ c.v[2] \in 1..Len(grid_rows[1])

\* the run's predicate holds of path p
Accepted(p) ==
    filter = "run" =>
        \A k \in 1..Len(p.v) : CellInGrid(p.v[k]) /\ ~ Member(p.v[k], miss_pos)

CapActive == location_list.t = "list" /\ max_hit.t = "int"
CapGiven == max_hit.t = "int"
TargetsGiven == location_list.t = "list"

\* the configuration passes validation: both or neither, and a positive cap
ValidInputs == CapActive => max_hit.v > 0

IsPathValue(p) == p.t = "list" /\ \A k \in 1..Len(p.v) : p.v[k].t = "tuple"

\* The paths a returned value holds.  With n_steps = 0 the value returned is
\* the bare path [(x, y)], read here as the one path it is.
ReturnedPaths ==
    IF result.v # <<>> /\ IsPathValue(result) THEN <<result>> ELSE result.v

Offsets ==
    {<<dx, dy>> \in (-2..2) \X (-2..2) :
        /\ dx # 0 /\ dy # 0
        /\ (IF dx < 0 THEN 0 - dx ELSE dx) + (IF dy < 0 THEN 0 - dy ELSE dy) = 3}

Diff(c, d) == <<c.v[1] - d.v[1], c.v[2] - d.v[2]>>

(***************************************************************************)
(* C1..C10                                                                 *)
(***************************************************************************)

\* C1: every element of the list returned by get_all_sequences is a path (a
\* list of coordinates) of exactly n_steps + 1 coordinates, n_steps = 0
\* included.
C1_ReturnedElementsArePathsOfLength ==
    Returned =>
        \A k \in 1..Len(result.v) :
            /\ IsPathValue(result.v[k])
            /\ Len(result.v[k].v) = n_steps + 1

\* C2: with n_steps = 0 the value returned is [[start]] when the predicate
\* accepts [start], and [] otherwise.
C2_ZeroStepsReturnsListOfStartPath ==
    (Returned /\ n_steps = 0) =>
        result = (IF Accepted(StartPath) THEN List(<<StartPath>>) ELSE List(<<>>))

\* C3: when location_list and max_hit are both supplied, every returned path
\* visits cells of location_list at most max_hit times, the start included.
C3_ReturnedPathsWithinCap ==
    (Returned /\ CapActive) =>
        \A k \in 1..Len(ReturnedPaths) :
            HitCount(ReturnedPaths[k], location_list) <= max_hit.v

\* a run returns, under an active cap, a path meeting the cap exactly with the
\* start cell among the limited cells
C3_Witness ==
    /\ Returned /\ CapActive /\ n_steps >= 1
    /\ Member(Tup(x, y), location_list)
    /\ \E k \in 1..Len(ReturnedPaths) :
           HitCount(ReturnedPaths[k], location_list) = max_hit.v

\* C4: under the run's predicate every coordinate of every returned path, the
\* start included, is inside the inclusive bounds and is not a forbidden cell.
C4_ReturnedPathsInBoundsAndAllowed ==
    (Returned /\ filter = "run") =>
        \A k \in 1..Len(ReturnedPaths) :
            \A j \in 1..Len(ReturnedPaths[k].v) :
                /\ CellInGrid(ReturnedPaths[k].v[j])
                /\ ~ Member(ReturnedPaths[k].v[j], miss_pos)

\* a run under the run's predicate returns paths from a start next to a
\* forbidden cell and to the edge, so that moves were pruned for both reasons
C4_Witness ==
    /\ Returned /\ filter = "run" /\ n_steps >= 2
    /\ Len(result.v) > 0
    /\ miss_pos.v # <<>>
    /\ \E m \in 1..Len(knight_moves) :
           Member(Tup(x + knight_moves[m][1], y + knight_moves[m][2]), miss_pos)
    /\ \E m \in 1..Len(knight_moves) :
           ~ CellInGrid(Tup(x + knight_moves[m][1], y + knight_moves[m][2]))

\* C5: when exactly one of location_list and max_hit is given, the call fails
\* with a configuration error instead of going on to return a result.
C5_PartialCapConfigurationRaises ==
    (TargetsGiven # CapGiven) => (pc \in {"call", "raised"})

\* C6: location_list given together with a zero or negative max_hit raises a
\* configuration error before any move is explored, whatever the start and
\* n_steps.
C6_NonPositiveCapRaisesFirst ==
    (CapActive /\ max_hit.v <= 0) =>
        /\ pc \in {"call", "raised"}
        /\ Raised => error = "AssertionError"
        /\ add_step_calls = 0
        /\ sequences = None

C6_Witness ==
    /\ Raised /\ CapActive /\ max_hit.v <= 0
    /\ n_steps >= 1
    /\ Accepted(StartPath)

\* C7: when the predicate rejects [start] (and the configuration is valid) the
\* call returns the empty list for every n_steps and makes no extension step.
C7_RejectedStartReturnsEmpty ==
    (ValidInputs /\ ~ Accepted(StartPath)) =>
        /\ pc \in {"call", "check_start", "returned"}
        /\ add_step_calls = 0
        /\ Returned => result = List(<<>>)

\* a call with n_steps >= 1 returns from a start that is a forbidden cell
\* inside the bounds
C7_Witness ==
    /\ Returned /\ n_steps >= 1
    /\ filter = "run"
    /\ CellInGrid(Tup(x, y)) /\ Member(Tup(x, y), miss_pos)

\* C8: for validated inputs the call never raises; when a generation is
\* emptied before the last step the remaining steps run on the empty
\* generation.
C8_ValidatedInputsNeverRaise ==
    (ValidInputs /\ TargetsGiven = CapGiven) => ~ Raised

\* C9: all_knight_moves(c) returns exactly 8 coordinates, unfiltered, whose
\* differences from c are the 8 offsets (+-2,+-1), (+-1,+-2), each once.
C9_AllKnightMovesEightOffsetsOnce ==
    (fn = "all_knight_moves" /\ ret # Pending) =>
        /\ ret.ok
        /\ Len(ret.val.v) = 8
        /\ Cardinality(Offsets) = 8
        /\ \A o \in Offsets :
               Cardinality({k \in 1..Len(ret.val.v) : Diff(ret.val.v[k], arg) = o}) = 1

\* all_knight_moves was called on a cell outside the grid
C9_Witness ==
    /\ fn = "all_knight_moves" /\ ret # Pending
    /\ ~ CellInGrid(arg)

\* the argument of add_step is a generation of k >= 1 paths, each non-empty
NonEmptyGeneration(g) ==
    /\ g.t = "list" /\ Len(g.v) >= 1
    /\ \A k \in 1..Len(g.v) : IsPathValue(g.v[k]) /\ Len(g.v[k].v) >= 1

\* q is p with one knight move from p's last coordinate appended
IsChildOf(q, p) ==
    /\ IsPathValue(q)
    /\ Len(q.v) = Len(p.v) + 1
    /\ SubSeq(q.v, 1, Len(p.v)) = p.v
    /\ Diff(q.v[Len(q.v)], p.v[Len(p.v)]) \in Offsets

\* C10: add_step([p]) for a path p of n >= 1 coordinates returns exactly 8
\* paths, each p followed by a knight move from p's last coordinate; for a
\* generation of k >= 1 such paths the output has exactly 8 * k paths (each
\* the child of one of them).
C10_AddStepEightChildrenPerPath ==
    (fn = "add_step" /\ ret # Pending /\ NonEmptyGeneration(arg)) =>
        /\ ret.ok
        /\ Len(ret.val.v) = 8 * Len(arg.v)
        /\ \A j \in 1..Len(ret.val.v) :
               \E k \in 1..Len(arg.v) : IsChildOf(ret.val.v[j], arg.v[k])
        /\ \A k \in 1..Len(arg.v) :
               Cardinality({j \in 1..Len(ret.val.v) :
                               IsChildOf(ret.val.v[j], arg.v[k])}) >= 8

\* add_step was called on a generation of two different paths, one of them of
\* more than one coordinate
C10_Witness ==
    /\ fn = "add_step" /\ ret # Pending /\ NonEmptyGeneration(arg)
    /\ Len(arg.v) = 2
    /\ arg.v[1] # arg.v[2]
    /\ Len(arg.v[1].v) >= 2

(***************************************************************************)
(* C11..C20                                                                *)
(***************************************************************************)

\* the fixed order of the 8 knight-move offsets
MoveOrder ==
    << <<2, 1>>, <<2, -1>>, <<-2, 1>>, <<-2, -1>>,
       <<1, 2>>, <<1, -2>>, <<-1, 2>>, <<-1, -2>> >>

IsCell(v) == v.t = "tuple" /\ Len(v.v) = 2
IsCellList(v) == v.t = "list" /\ \A k \in 1..Len(v.v) : IsCell(v.v[k])
IsListOfCellLists(v) == v.t = "list" /\ \A k \in 1..Len(v.v) : IsCellList(v.v[k])

\* v is a coordinate, a flat list of coordinates or a list of such lists
ShapeAccepted(v) == IsCell(v) \/ IsCellList(v) \/ IsListOfCellLists(v)

\* v is a coordinate, a non-empty path, or a non-empty list of non-empty paths
NonEmptyAccepted(v) ==
    \/ IsCell(v)
    \/ IsCellList(v) /\ Len(v.v) >= 1
    \/ /\ IsListOfCellLists(v) /\ Len(v.v) >= 1
       /\ \A k \in 1..Len(v.v) : Len(v.v[k].v) >= 1

\* the generation an accepted argument stands for
Denoted(v) ==
    IF IsCell(v) THEN <<List(<<v>>)>>
    ELSE IF IsCellList(v) THEN <<v>>
    ELSE v.v

MovedBy(c, o) == Tup(c.v[1] + o[1], c.v[2] + o[2])

\* the 8 children of every path of gen, path by path, in move order
Extension(gen) ==
    [j \in 1..(8 * Len(gen)) |->
        LET p == gen[((j - 1) \div 8) + 1]
            o == MoveOrder[((j - 1) % 8) + 1]
        IN  List(p.v \o <<MovedBy(p.v[Len(p.v)], o)>>)]

\* C11: add_step normalises its argument before extending: a bare coordinate
\* (x, y) stands for the path [(x, y)], a flat list of coordinates for one
\* path, a list of paths for itself; so add_step((x, y)), add_step([(x, y)])
\* and add_step([[(x, y)]]) return the same 8 two-element paths.
C11_AddStepNormalisesThreeShapes ==
    (fn = "add_step" /\ ret # Pending /\ NonEmptyAccepted(arg)) =>
        ret = Ok(List(Extension(Denoted(arg))))

\* add_step was called on a bare coordinate and returned
C11_Witness ==
    /\ fn = "add_step" /\ ret # Pending
    /\ IsCell(arg)
    /\ ret.ok /\ Len(ret.val.v) = 8

\* C12: add_step / check_and_convert fails with an input-shape error, and
\* returns nothing, for an argument that is neither a 2-element tuple, nor a
\* list of such tuples, nor a list of lists of such tuples.
C12_BadShapeRaisesValueError ==
    (fn = "add_step" /\ ret # Pending /\ ~ ShapeAccepted(arg)) =>
        ret = Raise("ValueError")

\* add_step was called on a list mixing a tuple and a list
C12_Witness ==
    /\ fn = "add_step" /\ ret # Pending
    /\ arg.t = "list" /\ Len(arg.v) = 2
    /\ arg.v[1].t = "tuple" /\ arg.v[2].t = "list"

\* C13: for k >= 1, the prefix of length k of every path returned with
\* n_steps = k is an element of the result of the call with the same start,
\* targets, cap and predicate and n_steps = k - 1.
C13_PrefixInResultOfOneStepLess ==
    (Returned /\ n_steps >= 1) =>
        LET prev == get_all_sequences(x, y, n_steps - 1)
        IN  /\ prev.ok
            /\ \A k \in 1..Len(result.v) :
                   \E j \in 1..Len(prev.val.v) :
                       prev.val.v[j] = List(SubSeq(result.v[k].v, 1, n_steps))

\* a path passes the predicate and, when both targets and cap are given, the cap
Allowed(p) ==
    /\ Accepted(p)
    /\ CapActive => HitCount(p, location_list) <= max_hit.v

\* the paths [start, m] for the 8 raw moves m from the start, in move order
RawFirstMoves ==
    [k \in 1..Len(MoveOrder) |->
        List(<<Tup(x, y), MovedBy(Tup(x, y), MoveOrder[k])>>)]

\* C15: with n_steps = 1 and an accepted start s the result is exactly the
\* list of the paths [s, m] for those of the 8 raw knight moves m from s that
\* are in bounds, not forbidden and within the cap, in move order; for bounds
\* rows 1-4 / cols 1-5, forbidden {(4,1), (4,5)} and s = (1,1) it is exactly
\* [[(1,1), (3,2)], [(1,1), (2,3)]].
C15_OneStepResultIsAllowedMovesInOrder ==
    /\ (Returned /\ n_steps = 1 /\ Accepted(StartPath)) =>
           result = List(SelectSeq(RawFirstMoves, Allowed))
    /\ (/\ Returned /\ n_steps = 1 /\ x = 1 /\ y = 1
        /\ filter = "run" /\ miss_pos = List(<<Tup(4, 1), Tup(4, 5)>>)
        /\ ~ CapActive) =>
           result = List(<<List(<<Tup(1, 1), Tup(3, 2)>>),
                           List(<<Tup(1, 1), Tup(2, 3)>>)>>)

\* the one-step call from (1,1) on the grid with its two missing corners
\* forbidden has returned
C15_Witness ==
    /\ Returned /\ n_steps = 1 /\ x = 1 /\ y = 1
    /\ filter = "run" /\ miss_pos = List(<<Tup(4, 1), Tup(4, 5)>>)
    /\ ~ CapActive
    /\ Len(result.v) = 2

\* C16: count_sequence_hit_location_list(path, targets) (the same function as
\* count_path_hit_location_list) is the number of positions of the path
\* holding a cell of targets: repeated visits count separately, no position
\* counts twice, the result is 0 for an empty path or empty targets, and 2
\* for [(1,1),(3,2),(1,3),(3,4),(1,1)] with [(1,1),(1,5),(2,4),(3,5)].
C16_CountIsNumberOfHitPositions ==
    (fn = "count_sequence_hit_location_list" /\ ret # Pending) =>
        /\ ret = Ok(PyInt(HitCount(arg.v[1], arg.v[2])))
        /\ (arg.v[1].v = <<>> \/ arg.v[2].v = <<>>) => ret.val.v = 0
        /\ (/\ arg.v[1] = List(<<Tup(1, 1), Tup(3, 2), Tup(1, 3), Tup(3, 4), Tup(1, 1)>>)
            /\ arg.v[2] = List(<<Tup(1, 1), Tup(1, 5), Tup(2, 4), Tup(3, 5)>>))
               => ret.val.v = 2

\* the count was taken of a path visiting a target twice, against a list
\* naming that target twice
C16_Witness ==
    /\ fn = "count_sequence_hit_location_list" /\ ret # Pending
    /\ arg.v[1] = List(<<Tup(1, 1), Tup(1, 1)>>)
    /\ arg.v[2] = List(<<Tup(1, 1), Tup(1, 1)>>)
    /\ ret.val.v = 2

\* C17: check_inside_bounds(path, x_min, x_max, y_min, y_max) is true iff
\* every coordinate (x, y) of the path has x_min <= x <= x_max and
\* y_min <= y <= y_max, both ends included; true for the empty path, false as
\* soon as one coordinate is outside.
C17_InsideBoundsIffAllWithinInclusive ==
    (fn = "check_inside_bounds" /\ ret # Pending) =>
        /\ ret = Ok(PyBool(\A k \in 1..Len(arg.v[1].v) :
                              /\ arg.v[1].v[k].v[1] \in arg.v[2].v..arg.v[3].v
                              /\ arg.v[1].v[k].v[2] \in arg.v[4].v..arg.v[5].v))
        /\ arg.v[1].v = <<>> => ret.val.v

\* the check accepted a path lying on both maxima of the bounds
C17_Witness ==
    /\ fn = "check_inside_bounds" /\ ret # Pending
    /\ Len(arg.v[1].v) >= 1
    /\ \E k \in 1..Len(arg.v[1].v) :
           /\ arg.v[1].v[k].v[1] = arg.v[3].v
           /\ arg.v[1].v[k].v[2] = arg.v[5].v
    /\ ret.val.v

\* C18: check_in_avoided_coordinate(path, forbidden) is true iff at least one
\* coordinate of the path is in forbidden; so its negation is true iff none
\* is, and is true for an empty path and for an empty forbidden list.
C18_AvoidedIffSomeCoordinateForbidden ==
    (fn = "check_in_avoided_coordinate" /\ ret # Pending) =>
        /\ ret = Ok(PyBool(\E k \in 1..Len(arg.v[1].v) :
                              Member(arg.v[1].v[k], arg.v[2])))
        /\ (arg.v[1].v = <<>> \/ arg.v[2].v = <<>>) => ~ ret.val.v

\* the check found the forbidden cell of a path whose first cell is allowed
C18_Witness ==
    /\ fn = "check_in_avoided_coordinate" /\ ret # Pending
    /\ Len(arg.v[1].v) = 2
    /\ ~ Member(arg.v[1].v[1], arg.v[2])
    /\ Member(arg.v[1].v[2], arg.v[2])
    /\ ret.val.v

\* the paths of a generation; the first generation is the bare path [(x, y)]
PathsIn(v) == IF v.v # <<>> /\ IsPathValue(v) THEN <<v>> ELSE v.v

\* p starts at the start cell and moves by a knight's move at every step
IsKnightPathFromStart(p) ==
    /\ IsPathValue(p)
    /\ Len(p.v) >= 1
    /\ p.v[1] = Tup(x, y)
    /\ \A j \in 1..(Len(p.v) - 1) : Diff(p.v[j + 1], p.v[j]) \in Offsets

\* C19: in every path of every generation the enumerator produces,
\* intermediate and final, the first element is the start cell and
\* consecutive elements differ by one of the 8 knight-move offsets (and the
\* paths of the generation after i steps have i + 1 coordinates).
C19_GenerationsHoldKnightPathsFromStart ==
    /\ sequences.t = "list" =>
           \A k \in 1..Len(PathsIn(sequences)) :
               /\ IsKnightPathFromStart(PathsIn(sequences)[k])
               /\ Len(PathsIn(sequences)[k].v) = i + 1
    /\ Returned =>
           \A k \in 1..Len(ReturnedPaths) : IsKnightPathFromStart(ReturnedPaths[k])

\* an intermediate generation of several paths, more steps to come
C19_Witness ==
    /\ pc = "loop" /\ i >= 1 /\ i < n_steps
    /\ Len(sequences.v) >= 2
    /\ filter = "run"

\* the grid's cells, its empty cells and its vowel cells, read off grid_rows
GridCells ==
    {Tup(r, c) : r \in 1..Len(grid_rows), c \in 1..Len(grid_rows[1])}
EmptyCell(c) == grid_rows[c.v[1]][c.v[2]] = ""
VowelHit(c) ==
    IF grid_rows[c.v[1]][c.v[2]] \in {"A", "E", "I", "O", "U"} THEN 1 ELSE 0

\* the number of knight walks of k more moves from cell c that stay on
\* non-empty grid cells and visit vowel cells at most twice in all, hits of
\* them visited so far
RECURSIVE WalksFrom(_, _, _)
RECURSIVE SumMoves(_, _, _, _)
WalksFrom(c, k, hits) ==
    IF k = 0 THEN 1 ELSE SumMoves(Offsets, c, k, hits)

SumMoves(os, c, k, hits) ==
    IF os = {} THEN 0
    ELSE LET o == CHOOSE o1 \in os : TRUE
             d == MovedBy(c, o)
         IN  (IF /\ d \in GridCells
                 /\ ~ EmptyCell(d)
                 /\ hits + VowelHit(d) <= 2
              THEN WalksFrom(d, k - 1, hits + VowelHit(d))
              ELSE 0)
             + SumMoves(os \ {o}, c, k, hits)

\* the number of such walks starting on cell c: none from an empty cell
WalksOfStart(c, k) ==
    IF EmptyCell(c) THEN 0 ELSE WalksFrom(c, k, VowelHit(c))

RECURSIVE SumWalks(_, _)
SumWalks(cells, k) ==
    IF cells = {} THEN 0
    ELSE LET c == CHOOSE c1 \in cells : TRUE
         IN  WalksOfStart(c, k) + SumWalks(cells \ {c}, k)

\* the cells main has finished with when it is at cell (x, y)
CellsBefore ==
    {c \in GridCells : c.v[1] < x \/ (c.v[1] = x /\ c.v[2] < y)}

\* C20: the total main reports is the sum, over every cell of the bounds
\* rectangle taken as start (forbidden cells included), of the number of
\* paths the enumerator returns for that start with targets = vowel cells and
\* cap = 2; a start on a forbidden cell contributes 0.  (The number of moves
\* is MainSteps here.)
C20_TotalIsSumOverAllStartCells ==
    /\ pc = "main_done" => total_sequences = SumWalks(GridCells, MainSteps)
    /\ pc \in {"call", "check_start", "loop", "returned"} =>
           total_sequences = SumWalks(CellsBefore, MainSteps)
    /\ Returned =>
           Len(result.v) = WalksOfStart(Tup(x, y), MainSteps)

\* main has gone through every cell and counted paths
C20_Witness ==
    /\ pc = "main_done"
    /\ x = Len(grid_rows) /\ y = Len(grid_rows[1])
    /\ total_sequences > 0

(***************************************************************************)
(* C21..C30                                                                *)
(***************************************************************************)

\* C21: add_step applied to the empty generation (the empty list of paths)
\* returns the empty generation, of 8 * 0 = 0 paths, and raises nothing.
C21_EmptyGenerationGivesEmptyGeneration ==
    (fn = "add_step" /\ ret # Pending /\ arg = List(<<>>)) =>
        ret = Ok(List(<<>>))

\* C22: the output of add_step is grouped by input path: for input paths at
\* indices a < b all 8 children of path a precede all children of path b, and
\* within the children of one path the appended coordinates follow the move
\* order (2,1),(2,-1),(-2,1),(-2,-1),(1,2),(1,-2),(-1,2),(-1,-2).
C22_ChildrenGroupedByParentInMoveOrder ==
    (fn = "add_step" /\ ret # Pending /\ NonEmptyGeneration(arg)) =>
        /\ ret.ok
        /\ Len(ret.val.v) = 8 * Len(arg.v)
        /\ \A a \in 1..Len(arg.v) : \A m \in 1..8 :
               LET child == ret.val.v[8 * (a - 1) + m]
                   parent == arg.v[a]
               IN  /\ SubSeq(child.v, 1, Len(parent.v)) = parent.v
                   /\ Len(child.v) = Len(parent.v) + 1
                   /\ Diff(child.v[Len(child.v)], parent.v[Len(parent.v)])
                          = << <<2, 1>>, <<2, -1>>, <<-2, 1>>, <<-2, -1>>,
                               <<1, 2>>, <<1, -2>>, <<-1, 2>>, <<-1, -2>> >>[m]

\* add_step returned the 16 children of two paths ending on different cells
C22_Witness ==
    /\ fn = "add_step" /\ ret # Pending /\ NonEmptyGeneration(arg)
    /\ Len(arg.v) = 2
    /\ arg.v[1].v[Len(arg.v[1].v)] # arg.v[2].v[Len(arg.v[2].v)]
    /\ ret.ok /\ Len(ret.val.v) = 16

\* the index (1..8) in the move order of the move from cell c to cell d
MoveIndex(c, d) == CHOOSE m \in 1..8 : MoveOrder[m] = Diff(d, c)

\* the move indices taken along path p
MoveIndices(p) == [j \in 1..(Len(p.v) - 1) |-> MoveIndex(p.v[j], p.v[j + 1])]

\* s comes strictly before u in the lexicographic order of equally long
\* sequences of numbers
LexBefore(s, u) ==
    \E j \in 1..Len(s) :
        /\ \A h \in 1..(j - 1) : s[h] = u[h]
        /\ s[j] < u[j]

\* C23: the per-step filter preserves the relative order produced by
\* add_step: every generation, and so the returned list, is ordered
\* lexicographically by the sequence of move indices (1..8) taken along each
\* path (each path comes strictly before the next one); no step reorders the
\* surviving paths.
C23_GenerationsInLexicographicMoveOrder ==
    /\ (pc = "loop" /\ i >= 1) =>
           \A a \in 1..(Len(sequences.v) - 1) :
               LexBefore(MoveIndices(sequences.v[a]), MoveIndices(sequences.v[a + 1]))
    /\ (Returned /\ n_steps >= 1) =>
           \A a \in 1..(Len(result.v) - 1) :
               LexBefore(MoveIndices(result.v[a]), MoveIndices(result.v[a + 1]))

\* a two-step run returned several paths after its filter had dropped paths
\* between survivors: the first moves of the returned paths are not all alike
\* and fewer than 64 paths are left
C23_Witness ==
    /\ Returned /\ n_steps = 2 /\ filter = "run"
    /\ Len(result.v) >= 3 /\ Len(result.v) < 64
    /\ \E a, b \in 1..Len(result.v) : result.v[a].v[2] # result.v[b].v[2]

\* the generation after i >= 1 steps holds only paths of i + 1 coordinates
\* that pass the predicate and, when it is active, the cap
GenerationFiltered ==
    (pc = "loop" /\ i >= 1) =>
        \A k \in 1..Len(sequences.v) :
            /\ Len(sequences.v[k].v) = i + 1
            /\ Allowed(sequences.v[k])

\* an iteration of the loop leaves at most 8 paths for every path it started
\* from (the generation before the first iteration is the one path [start])
GenerationGrowsAtMostEightfold ==
    (pc = "loop" /\ pc' = "loop" /\ i' = i + 1) =>
        Len(sequences'.v) <= 8 * Len(PathsIn(sequences))

\* C24: filtering happens after every extension and before the next one:
\* after step k (1 <= k <= n_steps) the current generation contains only
\* paths of length k + 1 that satisfy the predicate and (when active) the cap,
\* and its size is at most 8 times the size of the generation after step
\* k - 1; no unfiltered path is ever extended.
C24_FilteredAfterEveryExtension ==
    [] GenerationFiltered /\ [][GenerationGrowsAtMostEightfold]_vars

\* the second iteration has run under the run's predicate and an active cap,
\* on a generation the first iteration had pruned, and pruned again
C24_Witness ==
    /\ pc = "loop" /\ i = 2
    /\ filter = "run" /\ CapActive
    /\ Len(sequences.v) >= 1 /\ Len(sequences.v) < 8
    /\ \E k \in 1..Len(sequences.v) :
           HitCount(sequences.v[k], location_list) = max_hit.v

C26_PathModulesBehaveAsSequenceModules ==
    /\ Returned => get_all_paths(x, y, n_steps) = Ok(result)
    /\ Raised => get_all_paths(x, y, n_steps) = Raise(error)
    /\ (fn = "add_step" /\ ret # Pending) =>
           /\ path_create_add_step(arg) = ret
           /\ path_create_check_and_convert(arg) = check_and_convert(arg)
    /\ (fn = "check_inside_bounds" /\ ret # Pending) =>
           Ok(PyBool(path_check_check_inside_bounds(arg.v[1], arg.v[2].v, arg.v[3].v,
                                                    arg.v[4].v, arg.v[5].v))) = ret
    /\ (fn = "check_in_avoided_coordinate" /\ ret # Pending) =>
           Ok(PyBool(path_check_check_in_avoided_coordinate(arg.v[1], arg.v[2]))) = ret
    /\ (fn = "count_sequence_hit_location_list" /\ ret # Pending) =>
           Ok(PyInt(count_path_hit_location_list(arg.v[1], arg.v[2]))) = ret

\* get_all_sequences has returned several capped two-step paths, one of them
\* meeting the cap with the start cell counted
C26_Witness ==
    /\ Returned /\ n_steps = 2 /\ CapActive /\ filter = "run"
    /\ Member(Tup(x, y), location_list)
    /\ Len(result.v) >= 2
    /\ \E k \in 1..Len(result.v) : HitCount(result.v[k], location_list) = max_hit.v

\* the set of the cells of a list of cells
CellSet(cells) == {cells.v[k] : k \in 1..Len(cells.v)}

\* C27: for the fixed 4 x 5 grid of get_table_data the data-preparation
\* helpers supply bounds x_min = 1, x_max = 4, y_min = 1, y_max = 5, forbidden
\* (missing) cells exactly {(4,1), (4,5)} and limited (vowel) cells exactly
\* {(1,1), (1,5), (2,4), (3,5)}; the digit cells (4,2), (4,3), (4,4) are
\* neither forbidden nor limited.  Stated of what main hands to the
\* enumerator.
C27_GridDataOfTheFixedGrid ==
    /\ bounds_dict.x_min = 1 /\ bounds_dict.x_max = 4
    /\ bounds_dict.y_min = 1 /\ bounds_dict.y_max = 5
    /\ x \in 1..4 /\ y \in 1..5
    /\ CellSet(miss_pos) = {Tup(4, 1), Tup(4, 5)}
    /\ CellSet(location_list) = {Tup(1, 1), Tup(1, 5), Tup(2, 4), Tup(3, 5)}
    /\ \A c \in {Tup(4, 2), Tup(4, 3), Tup(4, 4)} :
           c \notin CellSet(miss_pos) /\ c \notin CellSet(location_list)

\* main's call from the digit cell (4,3) has returned paths
C27_Witness ==
    /\ Returned /\ x = 4 /\ y = 3
    /\ total_sequences > 0
    /\ Len(result.v) > 0

\* all the knight walks of k moves from the start cell, as sequences of cells
RECURSIVE AllWalks(_)
AllWalks(k) ==
    IF k = 0 THEN {<<Tup(x, y)>>}
    ELSE {Append(w, MovedBy(w[Len(w)], o)) : w \in AllWalks(k - 1), o \in Offsets}

\* the walks of n_steps moves that pass the predicate and the cap as a whole
ValidWalks == {w \in AllWalks(n_steps) : Allowed(List(w))}

\* the call is over
Finished == pc \in {"returned", "raised"}

\* C28: per-step pruning loses nothing: under the bounds / forbidden
\* predicate, targets and a cap >= 1, from an accepted start and for
\* n_steps >= 1, the call returns, and the set of the returned paths is the
\* set of all sequences of n_steps + 1 cells from the start whose consecutive
\* cells are a knight move apart, all in bounds and none forbidden, with at
\* most cap visits of targets (all 8^n_steps walks filtered once at the end).
C28_PruningEqualsFilteringAtTheEnd ==
    (/\ Finished /\ filter = "run" /\ CapActive /\ max_hit.v >= 1
     /\ n_steps >= 1 /\ Accepted(StartPath)) =>
        /\ Returned
        /\ {result.v[k].v : k \in 1..Len(result.v)} = ValidWalks

RECURSIVE PowerOfEight(_)
PowerOfEight(k) == IF k = 0 THEN 1 ELSE 8 * PowerOfEight(k - 1)

\* C29: the list returned by the enumerator never contains the same path
\* twice, for any start, n_steps, predicate and cap, so its length is the
\* number of distinct valid paths and is at most 8^n_steps.
C29_ReturnedListHasNoDuplicates ==
    Returned =>
        /\ \A a, b \in 1..Len(result.v) : a # b => result.v[a] # result.v[b]
        /\ Len(result.v) = Cardinality(ValidWalks)
        /\ Len(result.v) <= PowerOfEight(n_steps)

\* an unfiltered two-step run returned all 64 paths, among them paths that
\* come back to the start cell
C29_Witness ==
    /\ Returned /\ n_steps = 2 /\ filter = "none" /\ ~ CapActive
    /\ Len(result.v) = 64
    /\ \E k \in 1..Len(result.v) : result.v[k].v[3] = result.v[k].v[1]

\* s is u with some of its elements left out, the others in u's order
RECURSIVE IsSubList(_, _)
IsSubList(s, u) ==
    IF s = <<>> THEN TRUE
    ELSE IF u = <<>> THEN FALSE
    ELSE IF Head(s) = Head(u) THEN IsSubList(Tail(s), Tail(u))
    ELSE IsSubList(s, Tail(u))

\* the outcomes of the calls that differ from the current one by a cap larger
\* by one, and by having neither targets nor cap
WithNextCap ==
    get_all_sequences_with(x, y, n_steps, location_list, PyInt(max_hit.v + 1))
Uncapped == get_all_sequences_with(x, y, n_steps, None, None)

====
